---- MODULE Spec2Model ----
(***************************************************************************)
(* Credential resolution, token validation/refresh and the tool            *)
(* invocation wrappers of the personal-assistant MCP server                *)
(* (Google Gmail/Calendar, LinkedIn, Facebook).                            *)
(*                                                                         *)
(* Strings stand for credential values; the empty string stands for every  *)
(* falsy JavaScript value (undefined, null, "").  The values "cli", "env", *)
(* "ovr", "file" and "fileweb" name the place a value was configured, so   *)
(* that two sources never agree by accident.                               *)
(***************************************************************************)
EXTENDS Integers, Sequences, FiniteSets, TLC

VARIABLES
    cliArgs,            \* ConfigManager.cliArgs, parsed once from argv
    env,                \* process.env
    configDir,          \* TRUE iff the MCP_CONFIG_DIR directory exists
    gcpKeys,            \* gcp-oauth.keys.json
    googleCreds,        \* google-credentials.json
    linkedinKeys,       \* linkedin-oauth.keys.json
    linkedinCreds,      \* linkedin-credentials.json
    facebookCreds,      \* facebook-credentials.json
    now,                \* Date.now()
    issued,             \* number of token sets the Google token endpoint has issued
    written,            \* access tokens that a refresh write-back stored on disk
    defaultOAuth2Client,    \* _defaultOAuth2Client (google.ts)
    defaultGmailClient,     \* _defaultGmailClient is non-null
    defaultCalendarClient,  \* _defaultCalendarClient is non-null
    defaultLinkedInClient,  \* _defaultLinkedInClient is non-null
    calls,              \* the wrapper invocations in flight
    res                 \* result of the last stand-alone resolution

envVars == <<cliArgs, env, configDir, gcpKeys, linkedinKeys, linkedinCreds,
             facebookCreds>>
cacheVars == <<defaultOAuth2Client, defaultGmailClient, defaultCalendarClient,
               defaultLinkedInClient>>
vars == <<cliArgs, env, configDir, gcpKeys, googleCreds, linkedinKeys,
          linkedinCreds, facebookCreds, now, issued, written,
          defaultOAuth2Client, defaultGmailClient, defaultCalendarClient,
          defaultLinkedInClient, calls, res>>

----------------------------------------------------------------------------
(* Bounds *)

MaxTime == 2           \* the clock stops advancing here
MaxIssued == 2         \* refresh exchanges the token endpoint answers
TokenLifetime == 1     \* expires_in of an issued access token, in clock ticks

----------------------------------------------------------------------------
(* Values and keys *)

Blank == ""

GoogleEnvKeys == {"GOOGLE_CLIENT_ID", "GOOGLE_CLIENT_SECRET", "GOOGLE_REFRESH_TOKEN"}
LinkedInEnvKeys == {"LINKEDIN_CLIENT_ID", "LINKEDIN_CLIENT_SECRET",
                    "LINKEDIN_ACCESS_TOKEN", "LINKEDIN_REFRESH_TOKEN"}
FacebookEnvKeys == {"FACEBOOK_PAGE_ACCESS_TOKEN", "FACEBOOK_PAGE_ID"}
EnvKeys == GoogleEnvKeys \cup LinkedInEnvKeys \cup FacebookEnvKeys

GoogleCliKeys == {"googleClientId", "googleClientSecret", "googleRefreshToken"}
LinkedInCliKeys == {"linkedinClientId", "linkedinClientSecret",
                    "linkedinAccessToken", "linkedinRefreshToken"}
FacebookCliKeys == {"facebookPageAccessToken", "facebookPageId"}
CliKeys == GoogleCliKeys \cup LinkedInCliKeys \cup FacebookCliKeys

Providers == {"google", "linkedin", "facebook"}

EnvKeysOf(p) ==
    IF p = "google" THEN GoogleEnvKeys
    ELSE IF p = "linkedin" THEN LinkedInEnvKeys ELSE FacebookEnvKeys

CliKeysOf(p) ==
    IF p = "google" THEN GoogleCliKeys
    ELSE IF p = "linkedin" THEN LinkedInCliKeys ELSE FacebookCliKeys

\* JavaScript a || b on strings
Or(a, b) == IF a # Blank THEN a ELSE b

\* the n-th access token issued by the token endpoint
Tok(n) == "t" \o ToString(n)

----------------------------------------------------------------------------
(* Call-scoped override config (queryConfig).  defined = FALSE is          *)
(* undefined; defined = TRUE with an all-blank map is the empty object,    *)
(* which is truthy.                                                        *)

NoConfig == [defined |-> FALSE, map |-> [k \in EnvKeys |-> Blank]]

\* queryConfig?.KEY
Field(queryConfig, k) == IF queryConfig.defined THEN queryConfig.map[k] ELSE Blank

\* the override object that sets the keys in ks, all of them to "ovr"
Override(ks) ==
    [defined |-> TRUE, map |-> [k \in EnvKeys |-> IF k \in ks THEN "ovr" ELSE Blank]]

\* the keys the resolver of provider p reads
ResolverEnvKeysOf(p) == EnvKeysOf(p) \ {"LINKEDIN_ACCESS_TOKEN"}
ResolverCliKeysOf(p) == CliKeysOf(p) \ {"linkedinAccessToken"}

\* override objects that set keys of one provider only
OverridesOf(p) == { Override(ks) : ks \in SUBSET ResolverEnvKeysOf(p) }

----------------------------------------------------------------------------
(* ConfigManager *)

getValueEnvFirst(cliKey, envKey, defaultValue) ==
    Or(env[envKey], Or(cliArgs[cliKey], Or(defaultValue, Blank)))

getValue(cliKey, envKey, defaultValue) ==
    Or(cliArgs[cliKey], Or(env[envKey], Or(defaultValue, Blank)))

getGoogleOAuthConfig ==
    [clientId     |-> getValue("googleClientId", "GOOGLE_CLIENT_ID", Blank),
     clientSecret |-> getValue("googleClientSecret", "GOOGLE_CLIENT_SECRET", Blank),
     refreshToken |-> getValue("googleRefreshToken", "GOOGLE_REFRESH_TOKEN", Blank)]

getLinkedInOAuthConfig ==
    [clientId     |-> getValue("linkedinClientId", "LINKEDIN_CLIENT_ID", Blank),
     clientSecret |-> getValue("linkedinClientSecret", "LINKEDIN_CLIENT_SECRET", Blank),
     accessToken  |-> getValue("linkedinAccessToken", "LINKEDIN_ACCESS_TOKEN", Blank),
     refreshToken |-> getValue("linkedinRefreshToken", "LINKEDIN_REFRESH_TOKEN", Blank)]

\* the two Facebook fields of getGeneralConfig(); the file paths it also
\* returns are the file variables of this module
getGeneralConfig ==
    [facebookPageAccessToken |->
        getValue("facebookPageAccessToken", "FACEBOOK_PAGE_ACCESS_TOKEN", Blank),
     facebookPageId |-> getValue("facebookPageId", "FACEBOOK_PAGE_ID", Blank)]

getQueryConfig ==
    LET google == getGoogleOAuthConfig
        linkedin == getLinkedInOAuthConfig
        m == [k \in EnvKeys |->
                CASE k = "GOOGLE_CLIENT_ID" -> google.clientId
                  [] k = "GOOGLE_CLIENT_SECRET" -> google.clientSecret
                  [] k = "GOOGLE_REFRESH_TOKEN" -> google.refreshToken
                  [] k = "LINKEDIN_CLIENT_ID" -> linkedin.clientId
                  [] k = "LINKEDIN_CLIENT_SECRET" -> linkedin.clientSecret
                  [] k = "LINKEDIN_ACCESS_TOKEN" -> linkedin.accessToken
                  [] k = "LINKEDIN_REFRESH_TOKEN" -> linkedin.refreshToken
                  [] OTHER -> Blank]
    IN  IF \E k \in EnvKeys : m[k] # Blank
        THEN [defined |-> TRUE, map |-> m]
        ELSE NoConfig

----------------------------------------------------------------------------
(* Credential tuples.  kind is "tuple", "null" (the function returned      *)
(* null) or "throw" (an exception left the function).                      *)

Tuple(id, secret, refresh) ==
    [kind |-> "tuple", clientId |-> id, clientSecret |-> secret, refreshToken |-> refresh]
NullTuple == [kind |-> "null", clientId |-> Blank, clientSecret |-> Blank, refreshToken |-> Blank]
ThrowTuple == [kind |-> "throw", clientId |-> Blank, clientSecret |-> Blank, refreshToken |-> Blank]

(* Google: src/oauth/providers/google.ts *)

getEnvBasedCredentials_googleIgnored(queryConfig) == NullTuple

getEnvBasedCredentials_google(queryConfig) ==
    LET googleConfig == getGoogleOAuthConfig
        clientId == Or(Field(queryConfig, "GOOGLE_CLIENT_ID"), googleConfig.clientId)
        clientSecret == Or(Field(queryConfig, "GOOGLE_CLIENT_SECRET"), googleConfig.clientSecret)
        refreshToken == Or(Field(queryConfig, "GOOGLE_REFRESH_TOKEN"), googleConfig.refreshToken)
    IN  IF clientId = Blank \/ clientSecret = Blank \/ refreshToken = Blank
        THEN NullTuple
        ELSE Tuple(clientId, clientSecret, refreshToken)

getFileBasedCredentials_google ==
    IF gcpKeys.state = "absent" THEN NullTuple
    ELSE IF gcpKeys.state = "malformed" THEN ThrowTuple
    ELSE IF googleCreds.state = "malformed" THEN ThrowTuple
    ELSE Tuple(Or(gcpKeys.installed_id, gcpKeys.web_id),
               Or(gcpKeys.installed_secret, gcpKeys.web_secret),
               IF googleCreds.state = "ok" THEN googleCreds.refresh_token ELSE Blank)

\* the credentials object of an OAuth2Client
Credentials(access, refresh, expiry) ==
    [access_token |-> access, refresh_token |-> refresh, expiry_date |-> expiry]
NoCredentials == Credentials(Blank, Blank, 0)

NullClient ==
    [null |-> TRUE, clientId |-> Blank, clientSecret |-> Blank, credentials |-> NoCredentials]

createOAuth2ClientWithExpiry(queryConfig) ==
    LET envBased == getEnvBasedCredentials_google(queryConfig)
        credentials == IF envBased.kind = "null"
                       THEN getFileBasedCredentials_google ELSE envBased
    IN  IF credentials.kind = "throw" THEN NullClient
        ELSE [null |-> FALSE,
              clientId |-> credentials.clientId,
              clientSecret |-> credentials.clientSecret,
              credentials |->
                  IF googleCreds.state = "ok"
                  THEN Credentials(googleCreds.access_token, credentials.refreshToken,
                                   googleCreds.expiry_date)
                  ELSE Credentials(Blank, credentials.refreshToken, 0)]

createOAuth2ClientFieldwise(queryConfig) ==
    LET googleConfig == getGoogleOAuthConfig
        fileBased == getFileBasedCredentials_google
        clientId == Or(Field(queryConfig, "GOOGLE_CLIENT_ID"),
                       Or(googleConfig.clientId, fileBased.clientId))
        clientSecret == Or(Field(queryConfig, "GOOGLE_CLIENT_SECRET"),
                           Or(googleConfig.clientSecret, fileBased.clientSecret))
        refreshToken == Or(Field(queryConfig, "GOOGLE_REFRESH_TOKEN"),
                           Or(googleConfig.refreshToken, fileBased.refreshToken))
    IN  IF fileBased.kind = "throw" THEN NullClient
        ELSE [null |-> FALSE, clientId |-> clientId, clientSecret |-> clientSecret,
              credentials |-> Credentials(Blank, refreshToken, 0)]

createOAuth2Client(queryConfig) ==
    LET envBased == getEnvBasedCredentials_google(queryConfig)
        credentials == IF envBased.kind = "null"
                       THEN getFileBasedCredentials_google ELSE envBased
    IN  IF credentials.kind = "throw" THEN NullClient
        ELSE [null |-> FALSE,
              clientId |-> credentials.clientId,
              clientSecret |-> credentials.clientSecret,
              credentials |-> Credentials(Blank, credentials.refreshToken, 0)]

(* LinkedIn: src/oauth/providers/linkedin.ts *)

getEnvBasedCredentials_linkedin(queryConfig) ==
    LET linkedinConfig == getLinkedInOAuthConfig
        clientId == Or(Field(queryConfig, "LINKEDIN_CLIENT_ID"), linkedinConfig.clientId)
        clientSecret == Or(Field(queryConfig, "LINKEDIN_CLIENT_SECRET"), linkedinConfig.clientSecret)
        refreshToken == Or(Field(queryConfig, "LINKEDIN_REFRESH_TOKEN"), linkedinConfig.refreshToken)
    IN  IF clientId = Blank \/ clientSecret = Blank
        THEN NullTuple
        ELSE Tuple(clientId, clientSecret, refreshToken)

getFileBasedCredentials_linkedin ==
    IF linkedinKeys.state = "absent" THEN NullTuple
    ELSE IF linkedinKeys.state = "malformed" THEN ThrowTuple
    ELSE IF linkedinKeys.client_id = Blank \/ linkedinKeys.client_secret = Blank
         THEN NullTuple
    ELSE Tuple(linkedinKeys.client_id, linkedinKeys.client_secret,
               IF linkedinCreds.state = "ok" THEN linkedinCreds.refresh_token ELSE Blank)

\* returns the tuple the LinkedIn client object is built from
createLinkedInOAuth2Client(queryConfig) ==
    LET envBased == getEnvBasedCredentials_linkedin(queryConfig)
    IN  IF envBased.kind = "null" THEN getFileBasedCredentials_linkedin ELSE envBased

(* Facebook: src/tools/facebook.ts *)

FacebookConfig(token, page) ==
    [kind |-> "tuple", pageAccessToken |-> token, pageId |-> page]
FacebookThrow == [kind |-> "throw", pageAccessToken |-> Blank, pageId |-> Blank]

getFacebookConfig ==
    LET pageAccessToken == Or(env["FACEBOOK_PAGE_ACCESS_TOKEN"],
                              getGeneralConfig.facebookPageAccessToken)
        pageId == Or(env["FACEBOOK_PAGE_ID"], getGeneralConfig.facebookPageId)
    IN  IF pageAccessToken = Blank THEN FacebookThrow
        ELSE IF pageId = Blank THEN FacebookThrow
        ELSE FacebookConfig(pageAccessToken, pageId)

(* Facebook: src/oauth/providers/facebook.ts *)

loadFacebookTokens ==
    IF facebookCreds.state = "ok"
    THEN [null |-> FALSE, page_access_token |-> facebookCreds.page_access_token,
          page_id |-> facebookCreds.page_id]
    ELSE [null |-> TRUE, page_access_token |-> Blank, page_id |-> Blank]

isFacebookOAuthConfigured ==
    LET tokens == loadFacebookTokens
    IN  ~tokens.null /\ tokens.page_access_token # Blank /\ tokens.page_id # Blank

----------------------------------------------------------------------------
(* The files under MCP_CONFIG_DIR *)

GcpKeysFile(st, ii, is, wi, ws) ==
    [state |-> st, installed_id |-> ii, installed_secret |-> is,
     web_id |-> wi, web_secret |-> ws]
GoogleCredsFile(st, access, refresh, expiry) ==
    [state |-> st, access_token |-> access, refresh_token |-> refresh,
     expiry_date |-> expiry]
LinkedInKeysFile(st, id, secret) ==
    [state |-> st, client_id |-> id, client_secret |-> secret]
LinkedInCredsFile(st, access, refresh) ==
    [state |-> st, access_token |-> access, refresh_token |-> refresh]
FacebookCredsFile(st, token, page) ==
    [state |-> st, page_access_token |-> token, page_id |-> page]

FileValue == {Blank, "file"}
WebValue == {Blank, "fileweb"}

GcpKeysAll ==
    {GcpKeysFile("absent", Blank, Blank, Blank, Blank),
     GcpKeysFile("malformed", Blank, Blank, Blank, Blank)}
    \cup {GcpKeysFile("ok", ii, is, wi, ws) :
            ii \in FileValue, is \in FileValue, wi \in WebValue, ws \in WebValue}
GoogleCredsAll ==
    {GoogleCredsFile("absent", Blank, Blank, 0),
     GoogleCredsFile("malformed", Blank, Blank, 0)}
    \cup {GoogleCredsFile("ok", "file", r, e) : r \in FileValue, e \in {0, MaxTime}}
LinkedInKeysAll ==
    {LinkedInKeysFile("absent", Blank, Blank),
     LinkedInKeysFile("malformed", Blank, Blank)}
    \cup {LinkedInKeysFile("ok", id, s) : id \in FileValue, s \in FileValue}
LinkedInCredsAll ==
    {LinkedInCredsFile("absent", Blank, Blank),
     LinkedInCredsFile("malformed", Blank, Blank)}
    \cup {LinkedInCredsFile("ok", a, r) : a \in FileValue, r \in FileValue}
FacebookCredsAll ==
    {FacebookCredsFile("absent", Blank, Blank),
     FacebookCredsFile("malformed", Blank, Blank)}
    \cup {FacebookCredsFile("ok", t, p) : t \in FileValue, p \in FileValue}

\* the keys files as the operator's setup leaves them in the wrapper runs:
\* absent, unparsable, or complete
GcpKeysSetup ==
    {k \in GcpKeysAll : k.state = "ok" =>
        k.installed_id = "file" /\ k.installed_secret = "file"
        /\ k.web_id = Blank /\ k.web_secret = Blank}
LinkedInKeysSetup ==
    {k \in LinkedInKeysAll : k.state = "ok" =>
        k.client_id = "file" /\ k.client_secret = "file"}
LinkedInCredsSetup ==
    {c \in LinkedInCredsAll : c.state = "ok" => c.refresh_token = Blank}
FacebookCredsSetup ==
    {c \in FacebookCredsAll : c.state = "ok" =>
        c.page_access_token = "file" /\ c.page_id = "file"}

----------------------------------------------------------------------------
(* Wrapper invocations *)

\* two invocations may be in flight together
Calls == {1, 2}

\* a new invocation takes the lowest slot that holds no invocation in flight
Free(i) ==
    /\ calls[i].pc \in {"idle", "done"}
    /\ \A j \in Calls : j < i => calls[j].pc \notin {"idle", "done"}

ProviderOf(kind) ==
    IF kind \in {"gmail", "calendar"} THEN "google"
    ELSE IF kind = "linkedin" THEN "linkedin" ELSE "facebook"

NoEnvelope == [class |-> "none", message |-> Blank]
Envelope(c, m) == [class |-> c, message |-> m]

\* A thrown value.  nullish: the value is null or undefined.  code and
\* message are the fields the catch blocks read (code 0: not a number, as the
\* string code of an axios error); status and body are the HTTP status and a
\* word of the response body of the upstream answer behind the error.
ErrorValue(n, c, m, st, b) ==
    [nullish |-> n, code |-> c, message |-> m, status |-> st, body |-> b]

Thrown(m) == ErrorValue(FALSE, 0, m, 0, Blank)
NoError == Thrown(Blank)

IdleCall ==
    [pc |-> "idle", kind |-> "none", cfg |-> NoConfig,
     usesDefault |-> FALSE,        \* the client is the cached default client
     client |-> NullClient,        \* the client built from the override
     resolved |-> "none",          \* "client", "null" or "throw"
     tuple |-> NullTuple,          \* the tuple the client was built from
     stale |-> "none",             \* what validation found: expiry_date "absent",
                                   \* "past" (not later than the clock) or "future"
     valid |-> "none",             \* result of validation: "true" or "false"
     exchanges |-> 0,              \* refresh exchanges sent to the token endpoint
     refreshed |-> Blank,          \* access token a successful exchange returned
     writeTried |-> FALSE,         \* writeFileSync was called
     wrote |-> FALSE,              \* writeFileSync returned
     opInvoked |-> FALSE,          \* apiCall / the upstream request was started
     reqToken |-> Blank,           \* access token the upstream request carries
     opError |-> NoError,          \* what the wrapped operation threw, if it threw
     logged |-> FALSE,             \* logger.error / console.error was called
     envelope |-> NoEnvelope]

\* error messages thrown inside the wrappers; the Google wrappers put
\* "OAuth2 " and the LinkedIn wrapper "LinkedIn OAuth2 " in front of the
\* first two
MsgNoClient == "client could not be created, please check your credentials"
MsgInvalid == "credentials are invalid, please re-authenticate"
MsgParse == "Unexpected token } in JSON at position 1"
MsgFacebookConfig ==
    "FACEBOOK_PAGE_ACCESS_TOKEN is required. Set it in environment variables or config."
MsgTypeError == "Cannot read properties of null (reading 'message')"

\* errors the wrapped operation may throw, as googleapis reports them
OpErrors ==
    {ErrorValue(FALSE, 404, "Not Found", 404, Blank),
     ErrorValue(FALSE, 401, "Unauthorized", 401, Blank),
     ErrorValue(FALSE, 403, "insufficient_scope", 403, "insufficient_scope")}

\* further values an operation may throw: an axios error (the LinkedIn
\* operations call axios), errors that carry only a message, and null
OpErrorsMore ==
    {ErrorValue(FALSE, 0, "Request failed with status code 403", 403,
                "insufficient_scope"),
     ErrorValue(FALSE, 0, "insufficient_scope: w_member_social", 403,
                "insufficient_scope"),
     ErrorValue(FALSE, 0, "invalid_grant", 400, Blank),
     ErrorValue(FALSE, 0, "No refresh_token is set.", 0, Blank),
     ErrorValue(FALSE, 0, "Image file not found: a.png", 0, Blank),
     ErrorValue(TRUE, 0, Blank, 0, Blank)}

\* String.prototype.includes, character by character
Scan(message, marker) ==
    \E k \in 1..(Len(message) - Len(marker) + 1) :
        SubSeq(message, k, k + Len(marker) - 1) = marker

\* the substrings the catch blocks look for, and the messages of the errors
\* that reach them
Markers == {"invalid_grant", "refresh_token", "invalid_client", "unauthorized_client",
            "insufficient_scope", "scope", "permission"}
Messages ==
    {"OAuth2 " \o MsgNoClient, "OAuth2 " \o MsgInvalid,
     "LinkedIn OAuth2 " \o MsgNoClient, "LinkedIn OAuth2 " \o MsgInvalid, MsgParse}
    \cup {e.message : e \in OpErrors \cup OpErrorsMore}

\* Scan, worked out once for these messages and markers
MarkersIn == [m \in Messages |-> {k \in Markers : Scan(m, k)}]

\* String.prototype.includes
Includes(message, marker) ==
    IF message \in Messages /\ marker \in Markers
    THEN marker \in MarkersIn[message]
    ELSE Scan(message, marker)

isAuthErrorCodeOnly(error) == error.code = 401 \/ error.code = 403

isAuthError(error) ==
    \/ Includes(error.message, "invalid_grant")
    \/ Includes(error.message, "refresh_token")
    \/ Includes(error.message, "invalid_client")
    \/ Includes(error.message, "unauthorized_client")
    \/ error.code = 401
    \/ error.code = 403

isScopeError(error) ==
    \/ Includes(error.message, "insufficient_scope")
    \/ Includes(error.message, "scope")
    \/ Includes(error.message, "permission")

\* the remediation commands and the scope list of the envelopes
GoogleAuthCommand == "npx @softleolabs/pa-mcp auth"
LinkedInAuthCommand == "npx @softleolabs/pa-mcp linkedin-auth"
LinkedInScopes ==
    "r_basicprofile, w_member_social, r_organization_social, w_organization_social"

AuthText(error, command) ==
    "Authentication failed: " \o error.message
        \o ". Please re-authenticate by running: " \o command
ScopeText(error) ==
    "LinkedIn scope permission denied: " \o error.message
        \o ". Please ensure your LinkedIn app has the required OAuth 2.0 scopes approved: "
        \o LinkedInScopes
GenericText(error) == "Tool execution failed: " \o error.message

\* reading error.message of null or undefined inside the catch block throws
\* a TypeError, which leaves handleTool
Escaped == Envelope("escaped", MsgTypeError)

\* the catch block of handleTool in gmail.ts and google-calendar.ts
catch_google(error) ==
    IF error.nullish THEN Escaped
    ELSE IF isAuthError(error) THEN Envelope("auth", AuthText(error, GoogleAuthCommand))
    ELSE Envelope("generic", GenericText(error))

\* the catch block of handleTool in linkedin.ts
catch_linkedin(error) ==
    IF error.nullish THEN Escaped
    ELSE IF isAuthError(error) THEN Envelope("auth", AuthText(error, LinkedInAuthCommand))
    ELSE IF isScopeError(error) THEN Envelope("scope", ScopeText(error))
    ELSE Envelope("generic", GenericText(error))

\* postToFacebook and the catch block of the facebook_post_message handler:
\* makeGraphApiRequest returns the error body of an upstream answer, and
\* rethrows everything else as an Error, a thrown null included
catch_facebook(error) ==
    IF error.status # 0
    THEN Envelope("upstream", "Error posting to Facebook: " \o error.message)
    ELSE Envelope("generic", "Failed to post to Facebook: Facebook API request failed: "
                             \o (IF error.nullish THEN MsgTypeError ELSE error.message))

----------------------------------------------------------------------------
(* Token validation: src/oauth/providers/google.ts, validateCredentials *)

needsRefreshStrict(expiryDate, t) == expiryDate = 0 \/ expiryDate < t

\* const needsRefresh = !expiryDate || expiryDate <= Date.now()
needsRefresh(expiryDate, t) == expiryDate = 0 \/ expiryDate <= t

validateCredentialsNoTokenCheck(credentials, t) ==
    IF ~needsRefresh(credentials.expiry_date, t) THEN "true" ELSE "refresh"

\* validateCredentials up to its await: "true", "false", or "refresh" when
\* it goes on to oauth2Client.refreshAccessToken()
validateCredentials(credentials, t) ==
    IF ~needsRefresh(credentials.expiry_date, t) THEN "true"
    ELSE IF credentials.refresh_token = Blank THEN "false"
    ELSE "refresh"

\* the token set refreshAccessToken() resolves to: a new access token, the
\* refresh token the client already holds, and the new expiry
refreshAccessToken(credentials, n, t) ==
    Credentials(Tok(n), credentials.refresh_token, t + TokenLifetime)

persistStale(tokens) == googleCreds

persistMerged(tokens) ==
    IF googleCreds.state = "ok"
    THEN [googleCreds EXCEPT !.access_token = tokens.access_token,
                             !.expiry_date = tokens.expiry_date]
    ELSE GoogleCredsFile("ok", tokens.access_token, tokens.refresh_token,
                         tokens.expiry_date)

\* fs.writeFileSync(googleCredentialsPath, JSON.stringify(tokens, null, 2))
persist(tokens) ==
    GoogleCredsFile("ok", tokens.access_token, tokens.refresh_token, tokens.expiry_date)

validateLinkedInCredentialsOrEnvToken ==
    \/ linkedinCreds.state = "ok" /\ linkedinCreds.access_token # Blank
    \/ getLinkedInOAuthConfig.accessToken # Blank

\* src/oauth/providers/linkedin.ts
validateLinkedInCredentials ==
    linkedinCreds.state = "ok" /\ linkedinCreds.access_token # Blank

\* its catch block, reached when JSON.parse of the credentials file throws:
\* console.error("LinkedIn credential validation failed:", error)
validateLinkedInCredentialsLogs == linkedinCreds.state = "malformed"

getDefaultOAuth2ClientRebuilt == createOAuth2Client(NoConfig)

getDefaultOAuth2ClientInvalidated ==
    IF defaultOAuth2Client.null
       \/ ~(/\ defaultOAuth2Client.clientId = createOAuth2Client(NoConfig).clientId
             /\ defaultOAuth2Client.clientSecret = createOAuth2Client(NoConfig).clientSecret)
    THEN createOAuth2Client(NoConfig)
    ELSE defaultOAuth2Client

\* getDefaultOAuth2Client(): the cached client, built on first use
getDefaultOAuth2Client ==
    IF defaultOAuth2Client.null THEN createOAuth2Client(NoConfig)
    ELSE defaultOAuth2Client

----------------------------------------------------------------------------
(* handleTool of gmail.ts and google-calendar.ts *)

\* the client a Google invocation holds: the shared default or its own
ClientOf(c) == IF c.usesDefault THEN defaultOAuth2Client ELSE c.client

Failed(c, error) ==
    [c EXCEPT !.pc = "done", !.envelope = catch_google(error)]

\* construct or reuse the API client and start the operation
Invoked(c, token) ==
    [c EXCEPT !.pc = "calling", !.opInvoked = TRUE, !.reqToken = token]

ValidatedRetry(c, v) ==
    [c EXCEPT !.valid = IF v THEN "true" ELSE "false",
              !.exchanges = IF v THEN @ ELSE @ + 1]

Validated(c, v) == [c EXCEPT !.valid = IF v THEN "true" ELSE "false"]

afterValidationUnchecked(c, v, token) == Invoked(Validated(c, v), token)

\* if (!credentialsAreValid) throw ...; otherwise go on to apiCall
afterValidation(c, v, token) ==
    IF v THEN Invoked(Validated(c, v), token)
    ELSE Failed(Validated(c, v), Thrown("OAuth2 " \o MsgInvalid))

\* getDefaultGmailClient() / getDefaultCalendarClient() fill their caches
ApiClientCaches(kind, cfg) ==
    /\ defaultGmailClient' =
          IF kind = "gmail" /\ ~cfg.defined THEN TRUE ELSE defaultGmailClient
    /\ defaultCalendarClient' =
          IF kind = "calendar" /\ ~cfg.defined THEN TRUE ELSE defaultCalendarClient

\* what an independent reading of the clock says about an expiry_date
Staleness(expiryDate, t) ==
    IF expiryDate = 0 THEN "absent" ELSE IF expiryDate > t THEN "future" ELSE "past"

StartGoogle(i, kind, cfg) ==
    LET dflt == getDefaultOAuth2Client
        client == IF cfg.defined THEN createOAuth2Client(cfg) ELSE dflt
        creds == client.credentials
        c0 == [IdleCall EXCEPT
                 !.kind = kind, !.cfg = cfg, !.usesDefault = ~cfg.defined,
                 !.client = IF cfg.defined THEN client ELSE NullClient,
                 !.resolved = IF client.null THEN "null" ELSE "client",
                 !.tuple = IF client.null THEN NullTuple
                           ELSE Tuple(client.clientId, client.clientSecret,
                                      creds.refresh_token)]
        c1 == [c0 EXCEPT !.stale = Staleness(creds.expiry_date, now)]
        v == validateCredentials(creds, now)
    IN  /\ Free(i)
        /\ kind \in {"gmail", "calendar"}
        /\ defaultOAuth2Client' = IF cfg.defined THEN defaultOAuth2Client ELSE dflt
        /\ defaultLinkedInClient' = defaultLinkedInClient
        /\ IF client.null
           THEN /\ calls' = [calls EXCEPT ![i] =
                      Failed(c0, Thrown("OAuth2 " \o MsgNoClient))]
                /\ UNCHANGED <<defaultGmailClient, defaultCalendarClient>>
           ELSE IF v = "refresh"
           THEN /\ calls' = [calls EXCEPT ![i] =
                      [c1 EXCEPT !.pc = "refreshing", !.exchanges = 1]]
                /\ UNCHANGED <<defaultGmailClient, defaultCalendarClient>>
           ELSE /\ calls' = [calls EXCEPT ![i] =
                      afterValidation(c1, v = "true", creds.access_token)]
                /\ IF v = "true" THEN ApiClientCaches(kind, cfg)
                   ELSE UNCHANGED <<defaultGmailClient, defaultCalendarClient>>
        /\ UNCHANGED <<envVars, googleCreds, now, issued, written, res>>

\* the token endpoint answers the refresh exchange of invocation i
RefreshReturn(i, ok, diskOk) ==
    LET c == calls[i]
        cur == ClientOf(c)
        tokens == refreshAccessToken(cur.credentials, issued + 1, now)
        updated == [cur EXCEPT !.credentials = tokens]
        writeOk == configDir /\ diskOk
        c1 == [c EXCEPT !.refreshed = tokens.access_token, !.writeTried = TRUE,
                        !.wrote = writeOk,
                        !.client = IF c.usesDefault THEN c.client ELSE updated]
    IN  /\ c.pc = "refreshing"
        /\ IF ~ok
           THEN /\ calls' = [calls EXCEPT ![i] = afterValidation(c, FALSE, Blank)]
                /\ UNCHANGED <<googleCreds, issued, written, cacheVars>>
           ELSE /\ issued < MaxIssued
                /\ issued' = issued + 1
                \* oauth2Client.setCredentials(tokens)
                /\ defaultOAuth2Client' =
                      IF c.usesDefault THEN updated ELSE defaultOAuth2Client
                /\ defaultLinkedInClient' = defaultLinkedInClient
                /\ calls' = [calls EXCEPT ![i] =
                      afterValidation(c1, writeOk, tokens.access_token)]
                /\ IF writeOk
                   THEN /\ googleCreds' = persist(tokens)
                        /\ written' = written \cup {tokens.access_token}
                        /\ ApiClientCaches(c.kind, c.cfg)
                   ELSE UNCHANGED <<googleCreds, written, defaultGmailClient,
                                    defaultCalendarClient>>
        /\ UNCHANGED <<envVars, now, res>>

----------------------------------------------------------------------------
(* handleTool of linkedin.ts *)

FailedLinkedIn(c, error) ==
    [c EXCEPT !.pc = "done", !.envelope = catch_linkedin(error)]

afterLinkedInValidationUnchecked(c, v, token) == Invoked(Validated(c, v), token)

\* if (!credentialsAreValid) throw ...; otherwise load the tokens and go on
\* to apiCall
afterLinkedInValidation(c, v, token) ==
    IF v THEN Invoked(Validated(c, v), token)
    ELSE FailedLinkedIn(Validated(c, v), Thrown("LinkedIn OAuth2 " \o MsgInvalid))

StartLinkedIn(i, cfg) ==
    LET tuple == createLinkedInOAuth2Client(cfg)
        c0 == [IdleCall EXCEPT !.kind = "linkedin", !.cfg = cfg,
                 !.resolved = IF tuple.kind = "tuple" THEN "client" ELSE tuple.kind,
                 !.tuple = tuple]
        v == validateLinkedInCredentials
    IN  /\ Free(i)
        /\ IF tuple.kind = "throw"
           THEN /\ calls' = [calls EXCEPT ![i] = FailedLinkedIn(c0, Thrown(MsgParse))]
                /\ UNCHANGED defaultLinkedInClient
           ELSE IF tuple.kind = "null"
           THEN /\ calls' = [calls EXCEPT ![i] =
                      FailedLinkedIn(c0, Thrown("LinkedIn OAuth2 " \o MsgNoClient))]
                /\ UNCHANGED defaultLinkedInClient
           ELSE /\ calls' = [calls EXCEPT ![i] =
                      afterLinkedInValidation(
                          [c0 EXCEPT !.logged = validateLinkedInCredentialsLogs],
                          v, linkedinCreds.access_token)]
                /\ defaultLinkedInClient' =
                      IF v /\ ~cfg.defined THEN TRUE ELSE defaultLinkedInClient
        /\ UNCHANGED <<envVars, googleCreds, now, issued, written, res,
                       defaultOAuth2Client, defaultGmailClient, defaultCalendarClient>>

----------------------------------------------------------------------------
(* The facebook_post_message handler of tools/facebook.ts *)

StartFacebook(i, cfg) ==
    LET config == getFacebookConfig
        c0 == [IdleCall EXCEPT !.kind = "facebook", !.cfg = cfg,
                 !.resolved = IF config.kind = "tuple" THEN "client" ELSE "throw"]
    IN  /\ Free(i)
        /\ IF config.kind = "throw"
           THEN calls' = [calls EXCEPT ![i] =
                   [c0 EXCEPT !.pc = "done", !.tuple = ThrowTuple,
                              \* logger.error("Facebook post failed", ...)
                              !.logged = TRUE,
                              !.envelope = Envelope("generic",
                                  "Failed to post to Facebook: " \o MsgFacebookConfig)]]
           ELSE calls' = [calls EXCEPT ![i] =
                   Invoked([c0 EXCEPT !.tuple =
                              Tuple(config.pageId, Blank, config.pageAccessToken)],
                           config.pageAccessToken)]
        /\ UNCHANGED <<envVars, googleCreds, now, issued, written, res, cacheVars>>

----------------------------------------------------------------------------
(* The wrapped operation returns or throws *)

Outcomes(errors) ==
    {[ok |-> TRUE, error |-> NoError]} \cup {[ok |-> FALSE, error |-> e] : e \in errors}

OpOutcomes == Outcomes(OpErrors)

OpReturn(i, outcome) ==
    LET c == calls[i]
        e == IF outcome.ok THEN Envelope("result", Blank)
             ELSE IF c.kind = "linkedin" THEN catch_linkedin(outcome.error)
             ELSE IF c.kind = "facebook" THEN catch_facebook(outcome.error)
             ELSE catch_google(outcome.error)
    IN  /\ c.pc = "calling"
        /\ calls' = [calls EXCEPT ![i] =
              [c EXCEPT !.pc = "done", !.opError = outcome.error,
                        \* makeGraphApiRequest and the Facebook handler call
                        \* logger.error; the catch blocks of handleTool log
                        \* nothing
                        !.logged = @ \/ (c.kind = "facebook" /\ ~outcome.ok),
                        !.envelope = e]]
        /\ UNCHANGED <<envVars, googleCreds, now, issued, written, res, cacheVars>>

Tick ==
    /\ now < MaxTime
    /\ now' = now + 1
    /\ UNCHANGED <<envVars, googleCreds, issued, written, res, cacheVars, calls>>

----------------------------------------------------------------------------
(* Stand-alone resolution: the resolver of each provider applied to one    *)
(* override object                                                         *)

NoRes == [provider |-> "none", cfg |-> NoConfig, kind |-> "none",
          clientId |-> Blank, clientSecret |-> Blank, refreshToken |-> Blank,
          pageAccessToken |-> Blank, pageId |-> Blank]

ResolveGoogle(cfg) ==
    LET client == createOAuth2Client(cfg)
    IN  /\ res = NoRes
        /\ res' = [NoRes EXCEPT !.provider = "google", !.cfg = cfg,
                     !.kind = IF client.null THEN "null" ELSE "client",
                     !.clientId = client.clientId,
                     !.clientSecret = client.clientSecret,
                     !.refreshToken = client.credentials.refresh_token]
        /\ UNCHANGED <<envVars, googleCreds, now, issued, written, cacheVars, calls>>

ResolveLinkedIn(cfg) ==
    LET tuple == createLinkedInOAuth2Client(cfg)
    IN  /\ res = NoRes
        /\ res' = [NoRes EXCEPT !.provider = "linkedin", !.cfg = cfg,
                     !.kind = IF tuple.kind = "tuple" THEN "client" ELSE tuple.kind,
                     !.clientId = tuple.clientId,
                     !.clientSecret = tuple.clientSecret,
                     !.refreshToken = tuple.refreshToken]
        /\ UNCHANGED <<envVars, googleCreds, now, issued, written, cacheVars, calls>>

\* registerFacebookTools receives the override object; getFacebookConfig
\* takes no argument
ResolveFacebook(cfg) ==
    LET config == getFacebookConfig
    IN  /\ res = NoRes
        /\ res' = [NoRes EXCEPT !.provider = "facebook", !.cfg = cfg,
                     !.kind = IF config.kind = "tuple" THEN "client" ELSE "throw",
                     !.pageAccessToken = config.pageAccessToken,
                     !.pageId = config.pageId]
        /\ UNCHANGED <<envVars, googleCreds, now, issued, written, cacheVars, calls>>

----------------------------------------------------------------------------
(* The server process *)

\* override objects the wrappers are called with: none, the one
\* registerTools passes, and a complete override
WrapperConfigs(p) == {NoConfig, getQueryConfig, Override(EnvKeysOf(p))}

InitProcess ==
    /\ now = 1
    /\ issued = 0
    /\ written = {}
    /\ defaultOAuth2Client = NullClient
    /\ defaultGmailClient = FALSE
    /\ defaultCalendarClient = FALSE
    /\ defaultLinkedInClient = FALSE
    /\ calls = [i \in Calls |-> IdleCall]
    /\ res = NoRes

\* the directory exists whenever a file in it does
InitDir ==
    configDir \in
        IF \A f \in {gcpKeys.state, googleCreds.state, linkedinKeys.state,
                     linkedinCreds.state, facebookCreds.state} : f = "absent"
        THEN BOOLEAN ELSE {TRUE}

\* one source holding all keys of provider p, or nothing
CliOf(p) == [k \in CliKeys |-> IF k \in CliKeysOf(p) THEN "cli" ELSE Blank]
EnvOf(p) == [k \in EnvKeys |-> IF k \in EnvKeysOf(p) THEN "env" ELSE Blank]
NoCli == [k \in CliKeys |-> Blank]
NoEnv == [k \in EnvKeys |-> Blank]

NoFilesOf(p) ==
    /\ p = "google" => gcpKeys.state = "absent" /\ googleCreds.state = "absent"
    /\ p = "linkedin" => linkedinKeys.state = "absent" /\ linkedinCreds.state = "absent"
    /\ p = "facebook" => facebookCreds.state = "absent"

InitFiles(p, gk, gc, lk, lc, fc) ==
    /\ gcpKeys \in IF p = "google" THEN gk
                   ELSE {GcpKeysFile("absent", Blank, Blank, Blank, Blank)}
    /\ googleCreds \in IF p = "google" THEN gc
                       ELSE {GoogleCredsFile("absent", Blank, Blank, 0)}
    /\ linkedinKeys \in IF p = "linkedin" THEN lk
                        ELSE {LinkedInKeysFile("absent", Blank, Blank)}
    /\ linkedinCreds \in IF p = "linkedin" THEN lc
                         ELSE {LinkedInCredsFile("absent", Blank, Blank)}
    /\ facebookCreds \in IF p = "facebook" THEN fc
                         ELSE {FacebookCredsFile("absent", Blank, Blank)}

\* The server starts with one provider set up: through the command line,
\* through the environment, or through the files of the config directory.
Init ==
    /\ \E p \in Providers :
        /\ cliArgs \in {NoCli, CliOf(p)}
        /\ env \in {NoEnv, EnvOf(p)}
        /\ InitFiles(p, GcpKeysSetup, GoogleCredsAll, LinkedInKeysSetup,
                     LinkedInCredsSetup, FacebookCredsSetup)
        /\ cliArgs # NoCli => env = NoEnv /\ NoFilesOf(p)
        /\ gcpKeys.state # "ok" => googleCreds.state = "absent"
        /\ linkedinKeys.state # "ok" => linkedinCreds.state = "absent"
    /\ InitDir
    /\ InitProcess

\* no invocation is in flight
Quiet == \A j \in Calls : calls[j].pc \in {"idle", "done"}

\* the host issues one tool call at a time
Next ==
    \/ \E i \in Calls : \E kind \in {"gmail", "calendar"} :
          \E cfg \in WrapperConfigs("google") : Quiet /\ StartGoogle(i, kind, cfg)
    \/ \E i \in Calls : \E cfg \in WrapperConfigs("linkedin") :
          Quiet /\ StartLinkedIn(i, cfg)
    \/ \E i \in Calls : \E cfg \in WrapperConfigs("facebook") :
          Quiet /\ StartFacebook(i, cfg)
    \/ \E i \in Calls : \E ok \in BOOLEAN : \E diskOk \in BOOLEAN :
          RefreshReturn(i, ok, diskOk)
    \/ \E i \in Calls : \E outcome \in OpOutcomes : OpReturn(i, outcome)
    \/ Tick

Spec == Init /\ [][Next]_vars

\* Resolution alone, over every combination of present and absent keys of
\* one provider in the command line, the environment and the files
InitResolve ==
    /\ \E p \in Providers :
        /\ cliArgs \in {[k \in CliKeys |-> IF k \in ks THEN "cli" ELSE Blank] :
                          ks \in SUBSET ResolverCliKeysOf(p)}
        /\ env \in {[k \in EnvKeys |-> IF k \in ks THEN "env" ELSE Blank] :
                      ks \in SUBSET ResolverEnvKeysOf(p)}
        /\ InitFiles(p, GcpKeysAll, {c \in GoogleCredsAll : c.expiry_date = 0},
                     LinkedInKeysAll, LinkedInCredsAll, FacebookCredsAll)
    /\ InitDir
    /\ InitProcess

NextResolve ==
    \/ \E cfg \in OverridesOf("google") \cup {NoConfig} : ResolveGoogle(cfg)
    \/ \E cfg \in OverridesOf("linkedin") \cup {NoConfig} : ResolveLinkedIn(cfg)
    \/ \E cfg \in OverridesOf("facebook") \cup {NoConfig} : ResolveFacebook(cfg)

SpecResolve == InitResolve /\ [][NextResolve]_vars

\* The wrappers under every value the operation may throw, and with a
\* LinkedIn access token as the only configured value
OnlyKey(keys, key, v) == [k \in keys |-> IF k = key THEN v ELSE Blank]

AccessTokenOverride == Override({"LINKEDIN_ACCESS_TOKEN"})

CliSetups(p) ==
    {NoCli, CliOf(p)}
    \cup IF p = "linkedin" THEN {OnlyKey(CliKeys, "linkedinAccessToken", "cli")} ELSE {}

EnvSetups(p) ==
    {NoEnv, EnvOf(p)}
    \cup IF p = "linkedin" THEN {OnlyKey(EnvKeys, "LINKEDIN_ACCESS_TOKEN", "env")} ELSE {}

InitWrapper ==
    /\ \E p \in Providers :
        /\ cliArgs \in CliSetups(p)
        /\ env \in EnvSetups(p)
        /\ InitFiles(p, GcpKeysSetup, GoogleCredsAll, LinkedInKeysSetup,
                     LinkedInCredsSetup, FacebookCredsSetup)
        /\ cliArgs # NoCli => env = NoEnv /\ NoFilesOf(p)
        /\ gcpKeys.state # "ok" => googleCreds.state = "absent"
        /\ linkedinKeys.state # "ok" => linkedinCreds.state = "absent"
    /\ InitDir
    /\ InitProcess

NextWrapper ==
    \/ \E i \in Calls : \E kind \in {"gmail", "calendar"} :
          \E cfg \in WrapperConfigs("google") : Quiet /\ StartGoogle(i, kind, cfg)
    \/ \E i \in Calls :
          \E cfg \in WrapperConfigs("linkedin") \cup {AccessTokenOverride} :
             Quiet /\ StartLinkedIn(i, cfg)
    \/ \E i \in Calls : \E cfg \in WrapperConfigs("facebook") :
          Quiet /\ StartFacebook(i, cfg)
    \/ \E i \in Calls : \E ok \in BOOLEAN : \E diskOk \in BOOLEAN :
          RefreshReturn(i, ok, diskOk)
    \/ \E i \in Calls : \E outcome \in Outcomes(OpErrors \cup OpErrorsMore) :
          OpReturn(i, outcome)

SpecWrapper == InitWrapper /\ [][NextWrapper]_vars

\* Google invocations that overlap: the host does not wait for one tool call
\* to return before it sends the next.  Google is set up through the files,
\* with or without GOOGLE_* in the environment; a call carries no override or
\* a complete one.  The calls are Gmail calls: the Calendar wrapper runs the
\* same resolution and validation.
InitConcurrent ==
    /\ cliArgs = NoCli
    /\ env \in {NoEnv, EnvOf("google")}
    /\ InitFiles("google", {k \in GcpKeysSetup : k.state = "ok"},
                 {c \in GoogleCredsAll : c.state = "ok" /\ c.refresh_token = "file"},
                 {}, {}, {})
    /\ InitDir
    /\ InitProcess

NextConcurrent ==
    \/ \E i \in Calls : \E cfg \in {NoConfig, Override(GoogleEnvKeys)} :
          StartGoogle(i, "gmail", cfg)
    \/ \E i \in Calls : \E ok \in BOOLEAN : \E diskOk \in BOOLEAN :
          RefreshReturn(i, ok, diskOk)
    \/ \E i \in Calls : \E outcome \in OpOutcomes : OpReturn(i, outcome)
    \/ Tick

SpecConcurrent == InitConcurrent /\ [][NextConcurrent]_vars

\* The Google tools as the server registers them: every call carries the
\* object getQueryConfig() returned at registration.  Google or LinkedIn may
\* be set up through the command line or the environment, next to whatever
\* Google files the config directory holds.
InitServer ==
    /\ \E p \in {"google", "linkedin"} :
        /\ cliArgs \in {NoCli, CliOf(p)}
        /\ env \in {NoEnv, EnvOf(p)}
        /\ cliArgs # NoCli => env = NoEnv
    /\ InitFiles("google", GcpKeysSetup, GoogleCredsAll, {}, {}, {})
    /\ gcpKeys.state # "ok" => googleCreds.state = "absent"
    /\ InitDir
    /\ InitProcess

NextServer ==
    \/ \E i \in Calls : \E kind \in {"gmail", "calendar"} :
          Quiet /\ StartGoogle(i, kind, getQueryConfig)
    \/ \E i \in Calls : \E ok \in BOOLEAN : \E diskOk \in BOOLEAN :
          RefreshReturn(i, ok, diskOk)
    \/ \E i \in Calls : \E outcome \in OpOutcomes : OpReturn(i, outcome)
    \/ Tick

SpecServer == InitServer /\ [][NextServer]_vars

\* The Google wrappers called without override, as a program that imports
\* handleTool calls them, while the operator edits the Google files and the
\* GOOGLE_* variables of process.env change between the calls.
EditKeysFile(k) ==
    /\ k # gcpKeys
    /\ configDir
    /\ gcpKeys' = k
    /\ UNCHANGED <<cliArgs, env, configDir, googleCreds, linkedinKeys, linkedinCreds,
                   facebookCreds, now, issued, written, cacheVars, calls, res>>

EditCredentialsFile(c) ==
    /\ c # googleCreds
    /\ configDir
    /\ googleCreds' = c
    /\ UNCHANGED <<envVars, now, issued, written, cacheVars, calls, res>>

EditEnv(e) ==
    /\ e # env
    /\ env' = e
    /\ UNCHANGED <<cliArgs, configDir, gcpKeys, googleCreds, linkedinKeys,
                   linkedinCreds, facebookCreds, now, issued, written, cacheVars,
                   calls, res>>

\* contents the operator gives the two files
KeysFileEdits ==
    GcpKeysSetup \cup {GcpKeysFile("ok", Blank, Blank, "fileweb", "fileweb")}
CredentialsFileEdits ==
    {GoogleCredsFile("absent", Blank, Blank, 0), GoogleCredsFile("ok", "file", "file", 0)}

InitCache ==
    /\ cliArgs = NoCli
    /\ env \in {NoEnv, EnvOf("google")}
    /\ InitFiles("google", GcpKeysSetup, CredentialsFileEdits, {}, {}, {})
    /\ gcpKeys.state # "ok" => googleCreds.state = "absent"
    /\ InitDir
    /\ InitProcess

NextCache ==
    \/ \E i \in Calls : \E kind \in {"gmail", "calendar"} :
          Quiet /\ StartGoogle(i, kind, NoConfig)
    \/ \E i \in Calls : \E ok \in BOOLEAN : \E diskOk \in BOOLEAN :
          RefreshReturn(i, ok, diskOk)
    \/ \E i \in Calls : \E outcome \in OpOutcomes : OpReturn(i, outcome)
    \/ \E k \in KeysFileEdits : Quiet /\ EditKeysFile(k)
    \/ \E c \in CredentialsFileEdits : Quiet /\ EditCredentialsFile(c)
    \/ \E e \in {NoEnv, EnvOf("google")} : Quiet /\ EditEnv(e)

SpecCache == InitCache /\ [][NextCache]_vars

----------------------------------------------------------------------------
(* Properties of resolution, checked under SpecResolve *)

\* some source outside the override sets key k of provider p
SetOutsideOverride(p) ==
    IF p = "google"
    THEN /\ getGoogleOAuthConfig.clientId # Blank
         /\ getGoogleOAuthConfig.clientSecret # Blank
         /\ getGoogleOAuthConfig.refreshToken # Blank
    ELSE IF p = "linkedin"
    THEN /\ getLinkedInOAuthConfig.clientId # Blank
         /\ getLinkedInOAuthConfig.clientSecret # Blank
         /\ getLinkedInOAuthConfig.refreshToken # Blank
    ELSE /\ Or(env["FACEBOOK_PAGE_ACCESS_TOKEN"], cliArgs["facebookPageAccessToken"]) # Blank
         /\ Or(env["FACEBOOK_PAGE_ID"], cliArgs["facebookPageId"]) # Blank

CompleteOverride(cfg, p) ==
    cfg.defined /\ \A k \in ResolverEnvKeysOf(p) : cfg.map[k] # Blank

\* C1: for every provider, a complete override beats conflicting environment
\* or command-line values: the resolved tuple equals the override field for
\* field.
C1_OverrideWins ==
    (res.provider # "none" /\ CompleteOverride(res.cfg, res.provider)
       /\ SetOutsideOverride(res.provider))
    => /\ res.kind = "client"
       /\ res.provider = "google" =>
            /\ res.clientId = res.cfg.map["GOOGLE_CLIENT_ID"]
            /\ res.clientSecret = res.cfg.map["GOOGLE_CLIENT_SECRET"]
            /\ res.refreshToken = res.cfg.map["GOOGLE_REFRESH_TOKEN"]
       /\ res.provider = "linkedin" =>
            /\ res.clientId = res.cfg.map["LINKEDIN_CLIENT_ID"]
            /\ res.clientSecret = res.cfg.map["LINKEDIN_CLIENT_SECRET"]
            /\ res.refreshToken = res.cfg.map["LINKEDIN_REFRESH_TOKEN"]
       /\ res.provider = "facebook" =>
            /\ res.pageAccessToken = res.cfg.map["FACEBOOK_PAGE_ACCESS_TOKEN"]
            /\ res.pageId = res.cfg.map["FACEBOOK_PAGE_ID"]

NothingSetFor(p) ==
    /\ \A k \in CliKeysOf(p) : cliArgs[k] = Blank
    /\ \A k \in EnvKeysOf(p) : env[k] = Blank

FilesCompleteFor(p) ==
    IF p = "google"
    THEN /\ gcpKeys.state = "ok"
         /\ Or(gcpKeys.installed_id, gcpKeys.web_id) # Blank
         /\ Or(gcpKeys.installed_secret, gcpKeys.web_secret) # Blank
         /\ googleCreds.state = "ok" /\ googleCreds.refresh_token # Blank
    ELSE IF p = "linkedin"
    THEN /\ linkedinKeys.state = "ok"
         /\ linkedinKeys.client_id # Blank /\ linkedinKeys.client_secret # Blank
         /\ linkedinCreds.state = "ok" /\ linkedinCreds.access_token # Blank
    ELSE /\ facebookCreds.state = "ok"
         /\ facebookCreds.page_access_token # Blank /\ facebookCreds.page_id # Blank

\* C2: for every provider, with no override and nothing in the command line
\* or the environment, complete well-formed files alone give a usable tuple
\* made of the file values.
C2_FilesAlone ==
    (res.provider # "none" /\ ~res.cfg.defined /\ NothingSetFor(res.provider)
       /\ FilesCompleteFor(res.provider))
    => /\ res.kind = "client"
       /\ res.provider = "google" =>
            /\ res.clientId = Or(gcpKeys.installed_id, gcpKeys.web_id)
            /\ res.clientSecret = Or(gcpKeys.installed_secret, gcpKeys.web_secret)
            /\ res.refreshToken = googleCreds.refresh_token
       /\ res.provider = "linkedin" =>
            /\ res.clientId = linkedinKeys.client_id
            /\ res.clientSecret = linkedinKeys.client_secret
       /\ res.provider = "facebook" =>
            /\ res.pageAccessToken = facebookCreds.page_access_token
            /\ res.pageId = facebookCreds.page_id

\* C5: createOAuth2Client and createLinkedInOAuth2Client give a client only
\* from a tuple that has every required field (Google: client id, client
\* secret, refresh token; LinkedIn: client id, client secret).
C5_NoPartialClient ==
    /\ (res.provider = "google" /\ res.kind = "client")
         => res.clientId # Blank /\ res.clientSecret # Blank /\ res.refreshToken # Blank
    /\ (res.provider = "linkedin" /\ res.kind = "client")
         => res.clientId # Blank /\ res.clientSecret # Blank

\* the value of a key under the documented order: command line, then
\* environment, then the default (empty for every key modelled here)
ByPriority(cliKey, envKey) ==
    IF cliArgs[cliKey] # Blank THEN cliArgs[cliKey]
    ELSE IF env[envKey] # Blank THEN env[envKey] ELSE Blank

\* C18: for every configuration key the server reads, FACEBOOK_PAGE_ACCESS_TOKEN
\* and FACEBOOK_PAGE_ID as the Facebook tools use them included, a non-empty
\* command-line argument wins over the environment variable of the same key,
\* and the environment variable wins over the default.
C18_CliBeforeEnv ==
    /\ getGoogleOAuthConfig =
          [clientId     |-> ByPriority("googleClientId", "GOOGLE_CLIENT_ID"),
           clientSecret |-> ByPriority("googleClientSecret", "GOOGLE_CLIENT_SECRET"),
           refreshToken |-> ByPriority("googleRefreshToken", "GOOGLE_REFRESH_TOKEN")]
    /\ getLinkedInOAuthConfig =
          [clientId     |-> ByPriority("linkedinClientId", "LINKEDIN_CLIENT_ID"),
           clientSecret |-> ByPriority("linkedinClientSecret", "LINKEDIN_CLIENT_SECRET"),
           accessToken  |-> ByPriority("linkedinAccessToken", "LINKEDIN_ACCESS_TOKEN"),
           refreshToken |-> ByPriority("linkedinRefreshToken", "LINKEDIN_REFRESH_TOKEN")]
    /\ getGeneralConfig =
          [facebookPageAccessToken |->
              ByPriority("facebookPageAccessToken", "FACEBOOK_PAGE_ACCESS_TOKEN"),
           facebookPageId |-> ByPriority("facebookPageId", "FACEBOOK_PAGE_ID")]
    /\ (res.provider = "facebook" /\ res.kind = "client") =>
          /\ res.pageAccessToken =
                ByPriority("facebookPageAccessToken", "FACEBOOK_PAGE_ACCESS_TOKEN")
          /\ res.pageId = ByPriority("facebookPageId", "FACEBOOK_PAGE_ID")

----------------------------------------------------------------------------
(* Properties of the wrappers, checked under Spec *)

GoogleKinds == {"gmail", "calendar"}

\* C3: with page_access_token and page_id in facebook-credentials.json and no
\* FACEBOOK_* variable set, a Facebook tool call sends its upstream request
\* with the page token of the file, without any refresh or exchange.
C3_FacebookUsesFileToken ==
    \A i \in Calls :
        (calls[i].kind = "facebook" /\ NothingSetFor("facebook")
           /\ FilesCompleteFor("facebook"))
        => /\ calls[i].opInvoked
           /\ calls[i].reqToken = facebookCreds.page_access_token
           /\ calls[i].exchanges = 0

\* C4: for every provider, a call with no override, no environment or
\* command-line value and no file ends with the "could not create client"
\* configuration error: resolution gives no client, validation is never
\* reached, the operation is not invoked.
C4_NothingConfigured ==
    \A i \in Calls :
        (calls[i].kind # "none" /\ ~calls[i].cfg.defined
           /\ NothingSetFor(ProviderOf(calls[i].kind))
           /\ NoFilesOf(ProviderOf(calls[i].kind)))
        => /\ calls[i].pc = "done"
           /\ calls[i].resolved \in {"null", "throw"}
           /\ calls[i].valid = "none"
           /\ ~calls[i].opInvoked
           /\ calls[i].envelope.class # "result"
           /\ \/ Includes(calls[i].envelope.message, MsgNoClient)
              \/ Includes(calls[i].envelope.message, MsgFacebookConfig)

\* C6: validateCredentials never answers true for a Google client whose
\* expiry_date was absent or not later than the clock (equal counts as
\* expired) unless a refresh exchange succeeded in that same call.
C6_NoValidWithoutRefresh ==
    \A i \in Calls :
        (calls[i].kind \in GoogleKinds /\ calls[i].valid = "true"
           /\ calls[i].stale \in {"absent", "past"})
        => calls[i].exchanges = 1 /\ calls[i].refreshed # Blank

C6_Witness ==
    \E i \in Calls :
        /\ calls[i].kind \in GoogleKinds
        /\ calls[i].valid = "true"
        /\ calls[i].stale = "past"
        /\ calls[i].refreshed # Blank

\* C7: for Google credentials that are expired and hold a refresh token, when
\* the token endpoint and the file write succeed, the validation performs
\* exactly one refresh exchange, answers true, and google-credentials.json
\* then holds the newly issued token set.
C7_RefreshThenPersist ==
    \A i \in Calls :
        (calls[i].kind \in GoogleKinds /\ calls[i].stale \in {"absent", "past"}
           /\ calls[i].tuple.refreshToken # Blank
           /\ calls[i].refreshed # Blank /\ calls[i].wrote)
        => /\ calls[i].exchanges = 1
           /\ calls[i].valid = "true"
           /\ ClientOf(calls[i]).credentials.access_token = calls[i].refreshed
           /\ googleCreds.state = "ok"
           /\ googleCreds.access_token = calls[i].refreshed
           /\ googleCreds.refresh_token = calls[i].tuple.refreshToken
           /\ googleCreds.expiry_date = ClientOf(calls[i]).credentials.expiry_date

C7_Witness ==
    \E i \in Calls :
        /\ calls[i].kind \in GoogleKinds
        /\ calls[i].stale = "past"
        /\ calls[i].refreshed # Blank
        /\ calls[i].wrote
        /\ calls[i].valid = "true"
        /\ googleCreds.access_token = calls[i].refreshed

\* C8: for Google credentials whose expiry_date is past or absent and that
\* hold no refresh_token, validation answers false without any call to the
\* token endpoint and without writing the credentials file.
C8_NoTokenNoExchange ==
    \A i \in Calls :
        (calls[i].kind \in GoogleKinds /\ calls[i].stale \in {"absent", "past"}
           /\ calls[i].tuple.refreshToken = Blank)
        => /\ calls[i].valid = "false"
           /\ calls[i].exchanges = 0
           /\ calls[i].refreshed = Blank
           /\ ~calls[i].writeTried

C8_Witness ==
    \E i \in Calls :
        /\ calls[i].kind \in GoogleKinds
        /\ calls[i].stale = "absent"
        /\ calls[i].tuple.refreshToken = Blank
        /\ calls[i].valid = "false"
        /\ googleCreds.state = "ok"

\* C9: whenever validateCredentials answers true and the client's access
\* token came from a refresh exchange, that token set had been written to
\* google-credentials.json before the answer.
C9_ValidImpliesPersisted ==
    \A i \in Calls :
        (calls[i].kind \in GoogleKinds /\ calls[i].valid = "true"
           /\ ClientOf(calls[i]).credentials.access_token # Blank)
        => ClientOf(calls[i]).credentials.access_token \in written

\* C10: in the Gmail, Calendar and LinkedIn wrappers the operation is invoked
\* only after resolution gave a client and validation answered true in the
\* same invocation; when validation fails the operation is never invoked and
\* no upstream request is made.
C10_OperationOnlyWhenValid ==
    \A i \in Calls :
        calls[i].kind \in GoogleKinds \cup {"linkedin"}
        => /\ calls[i].opInvoked
                => calls[i].resolved = "client" /\ calls[i].valid = "true"
           /\ calls[i].valid # "true"
                => ~calls[i].opInvoked /\ calls[i].reqToken = Blank
           /\ calls[i].pc = "calling" => calls[i].opInvoked

C10_Witness ==
    \E i \in Calls :
        /\ calls[i].kind \in GoogleKinds
        /\ calls[i].exchanges = 1
        /\ calls[i].valid = "false"
        /\ calls[i].pc = "done"
        /\ ~calls[i].opInvoked

----------------------------------------------------------------------------
(* Properties of the wrappers' error handling, checked under SpecWrapper *)

OAuthKinds == GoogleKinds \cup {"linkedin"}

AuthCommandOf(kind) == IF kind = "linkedin" THEN LinkedInAuthCommand ELSE GoogleAuthCommand

\* C11: when validation fails in a wrapper invocation, the returned envelope
\* is the authentication failure, not the generic operation failure, and its
\* text holds the re-authentication command.
C11_InvalidIsAuthFailure ==
    \A i \in Calls :
        (calls[i].kind \in OAuthKinds /\ calls[i].valid = "false"
           /\ calls[i].pc = "done")
        => /\ calls[i].envelope.class = "auth"
           /\ Includes(calls[i].envelope.message, "Authentication failed")
           /\ Includes(calls[i].envelope.message, AuthCommandOf(calls[i].kind))

\* the operation of invocation i threw a value
OpThrew(i) ==
    /\ calls[i].pc = "done"
    /\ calls[i].opInvoked
    /\ calls[i].opError # NoError

\* C12: when the operation fails with HTTP 403 and the upstream error carries
\* "insufficient_scope", the envelope is the permission envelope naming the
\* required scopes: neither the authentication failure nor the generic
\* "Tool execution failed".
C12_ScopeErrorIsPermission ==
    \A i \in Calls :
        (calls[i].kind \in OAuthKinds /\ OpThrew(i)
           /\ calls[i].opError.status = 403
           /\ calls[i].opError.body = "insufficient_scope")
        => /\ calls[i].envelope.class = "scope"
           /\ Includes(calls[i].envelope.message, "scope")
           /\ ~Includes(calls[i].envelope.message, "Authentication failed")
           /\ ~Includes(calls[i].envelope.message, "Tool execution failed")

\* the authentication markers as the statement of C13 lists them
ListedAuthMarker(error) ==
    \/ error.code = 401
    \/ error.code = 403
    \/ \E m \in {"invalid_grant", "invalid_client", "unauthorized_client"} :
          Includes(error.message, m)

\* the authentication markers the catch blocks test
AuthMarker(error) ==
    \/ ListedAuthMarker(error)
    \/ Includes(error.message, "refresh_token")

ScopeMarker(error) ==
    \E m \in {"insufficient_scope", "scope", "permission"} : Includes(error.message, m)

IsOperationFailure(i) ==
    /\ calls[i].envelope.class = "generic"
    /\ calls[i].envelope.message = "Tool execution failed: " \o calls[i].opError.message

StartsWith(text, prefix) ==
    Len(text) >= Len(prefix) /\ SubSeq(text, 1, Len(prefix)) = prefix

IsAuthFailure(i) ==
    /\ calls[i].envelope.class = "auth"
    /\ StartsWith(calls[i].envelope.message,
                  "Authentication failed: " \o calls[i].opError.message)

\* C13 as stated: an error of the operation with none of the markers code
\* 401/403, invalid_grant, invalid_client, unauthorized_client and no scope
\* marker gives the operation failure carrying the original message; an error
\* with one of these markers gives the authentication failure.
C13_AsStated ==
    \A i \in Calls :
        (calls[i].kind \in OAuthKinds /\ OpThrew(i) /\ ~calls[i].opError.nullish)
        => /\ ListedAuthMarker(calls[i].opError) => IsAuthFailure(i)
           /\ (~ListedAuthMarker(calls[i].opError) /\ ~ScopeMarker(calls[i].opError))
                => IsOperationFailure(i)

\* C13, amended: "refresh_token" in the message is an authentication marker
\* too.  An error of the operation with no authentication marker (code
\* 401/403; message containing invalid_grant, refresh_token, invalid_client,
\* unauthorized_client) and no scope marker gives the operation failure
\* carrying the original message unchanged; an error with an authentication
\* marker gives the authentication failure.
C13_Classification ==
    \A i \in Calls :
        (calls[i].kind \in OAuthKinds /\ OpThrew(i) /\ ~calls[i].opError.nullish)
        => /\ AuthMarker(calls[i].opError) => IsAuthFailure(i)
           /\ (~AuthMarker(calls[i].opError) /\ ~ScopeMarker(calls[i].opError))
                => IsOperationFailure(i)

C13_Witness ==
    \E i \in Calls :
        /\ calls[i].kind = "linkedin"
        /\ OpThrew(i)
        /\ Includes(calls[i].opError.message, "refresh_token")
        /\ ~ListedAuthMarker(calls[i].opError)
        /\ IsAuthFailure(i)

\* C14: a wrapper invocation always ends by returning a value to the host,
\* the operation's result or an error envelope, whatever resolution,
\* validation, client construction and the operation do, the operation
\* throwing any value included; no exception leaves handleTool.
C14_AlwaysReturns ==
    \A i \in Calls :
        /\ calls[i].envelope.class # "escaped"
        /\ calls[i].pc = "done" => calls[i].envelope.class # "none"

----------------------------------------------------------------------------
(* Properties of the default cache, of LinkedIn validation and of           *)
(* resolution inside the wrappers, checked under SpecWrapper                *)

\* invocation i begins in this step
Begins(i) ==
    /\ calls[i].pc \in {"idle", "done"}
    /\ calls'[i] # calls[i]

\* the fields of a client that its construction fixes
SameBuild(a, b) ==
    /\ a.null = b.null
    /\ a.clientId = b.clientId
    /\ a.clientSecret = b.clientSecret
    /\ a.credentials.refresh_token = b.credentials.refresh_token

C15_Step ==
    \* the default cache is filled by default resolution, in a call without
    \* override, and a cached client is never replaced
    /\ defaultOAuth2Client' # defaultOAuth2Client =>
          /\ IF defaultOAuth2Client.null
             THEN defaultOAuth2Client' = createOAuth2Client(NoConfig)
             ELSE SameBuild(defaultOAuth2Client', defaultOAuth2Client)
          /\ \E i \in Calls :
                /\ calls'[i].kind \in GoogleKinds /\ ~calls'[i].cfg.defined
                /\ calls'[i].usesDefault
                /\ Begins(i) \/ calls[i].pc = "refreshing"
    \* the cached API clients are bound in calls without override only
    /\ <<defaultGmailClient, defaultCalendarClient, defaultLinkedInClient>>'
          # <<defaultGmailClient, defaultCalendarClient, defaultLinkedInClient>> =>
          \E i \in Calls : calls'[i] # calls[i] /\ ~calls'[i].cfg.defined
    /\ \A i \in Calls :
          (Begins(i) /\ calls'[i].kind \in GoogleKinds) =>
             IF calls'[i].cfg.defined
             \* a call with an override: its own client, built from its override
             THEN /\ ~calls'[i].usesDefault
                  /\ SameBuild(calls'[i].client, createOAuth2Client(calls'[i].cfg))
                  /\ CompleteOverride(calls'[i].cfg, "google") =>
                        calls'[i].tuple =
                           Tuple(calls'[i].cfg.map["GOOGLE_CLIENT_ID"],
                                 calls'[i].cfg.map["GOOGLE_CLIENT_SECRET"],
                                 calls'[i].cfg.map["GOOGLE_REFRESH_TOKEN"])
                  /\ defaultOAuth2Client' = defaultOAuth2Client
             \* a call without override: the cached client once it exists
             ELSE /\ calls'[i].usesDefault
                  /\ ~defaultOAuth2Client.null =>
                        defaultOAuth2Client' = defaultOAuth2Client

\* C15: override clients never enter the process-wide default cache.  The
\* cached default OAuth2 client, and the cached Gmail, Calendar and LinkedIn
\* clients, are set by calls without override only, from default resolution;
\* a call with an override uses a client built from its own override; a call
\* without override reuses the cached client once it exists.
C15_DefaultCacheUnpolluted == [][C15_Step]_vars

C15_Witness ==
    \E i \in Calls :
        /\ calls[i].kind \in GoogleKinds
        /\ CompleteOverride(calls[i].cfg, "google")
        /\ calls[i].tuple = Tuple("ovr", "ovr", "ovr")
        /\ calls[i].refreshed # Blank
        /\ ~defaultOAuth2Client.null
        /\ defaultOAuth2Client.credentials.access_token \notin {Blank, calls[i].refreshed}
        /\ defaultOAuth2Client.clientId # "ovr"
        /\ defaultGmailClient

C17_ParseErrorNeverInEnvelope ==
    \A i \in Calls :
        calls[i].kind \in OAuthKinds
        => /\ calls[i].resolved # "throw"
           /\ ~Includes(calls[i].envelope.message, MsgParse)

\* the LinkedIn access token configured for invocation i
AccessTokenOf(i) ==
    Or(Field(calls[i].cfg, "LINKEDIN_ACCESS_TOKEN"), getLinkedInOAuthConfig.accessToken)

\* invocation i is given an access token and nothing else
AccessTokenOnly(i) ==
    /\ AccessTokenOf(i) # Blank
    /\ Or(Field(calls[i].cfg, "LINKEDIN_CLIENT_ID"), getLinkedInOAuthConfig.clientId) = Blank
    /\ Or(Field(calls[i].cfg, "LINKEDIN_CLIENT_SECRET"),
          getLinkedInOAuthConfig.clientSecret) = Blank
    /\ linkedinKeys.state = "absent"
    /\ linkedinCreds.state = "absent"

\* C19: a LinkedIn tuple that is only an access token (from
\* LINKEDIN_ACCESS_TOKEN, the command line or the override, with no client
\* id or secret and no credentials file) is usable: the wrapper resolves and
\* validates it and invokes the operation with that access token.
C19_AccessTokenAlone ==
    \A i \in Calls :
        (calls[i].kind = "linkedin" /\ AccessTokenOnly(i))
        => /\ calls[i].resolved = "client"
           /\ calls[i].valid = "true"
           /\ calls[i].opInvoked
           /\ calls[i].reqToken = AccessTokenOf(i)

\* no invocation was made yet
NoCallYet == \A i \in Calls : calls[i] = IdleCall

C20_Step ==
    \A i \in Calls :
        /\ (/\ NoCallYet /\ Begins(i)
            /\ calls'[i].kind \in GoogleKinds
            /\ env = EnvOf("google") /\ cliArgs = NoCli
            /\ gcpKeys.state = "absent" /\ googleCreds.state = "absent"
            /\ calls'[i].cfg \in {NoConfig, getQueryConfig})
           => /\ calls'[i].tuple = Tuple("env", "env", "env")
              /\ calls'[i].pc = "refreshing"
              /\ calls'[i].exchanges = 1
              /\ ~calls'[i].opInvoked
        /\ (calls[i].pc = "refreshing" /\ calls'[i].opInvoked)
           => /\ calls'[i].refreshed = Tok(issued')
              /\ issued' = issued + 1

\* C20: with GOOGLE_CLIENT_ID, GOOGLE_CLIENT_SECRET and GOOGLE_REFRESH_TOKEN
\* in the environment and no files, the first Google tool call resolves its
\* tuple from the environment and sends a refresh exchange; the operation is
\* invoked only after that exchange has completed.
C20_EnvThenRefreshFirst == [][C20_Step]_vars

C20_Witness ==
    \E i \in Calls :
        /\ calls[i].kind \in GoogleKinds
        /\ env = EnvOf("google") /\ gcpKeys.state = "absent"
        /\ calls[i].tuple = Tuple("env", "env", "env")
        /\ calls[i].exchanges = 1
        /\ issued = 1 /\ calls[i].refreshed = Tok(issued)
        /\ calls[i].opInvoked


----------------------------------------------------------------------------
(* Whole-tuple resolution, checked under SpecResolve *)

\* values that only the files of the config directory hold
FileValues == {"file", "fileweb"}

\* the override-plus-environment merge of getEnvBasedCredentials
Merged(cfg, p) ==
    IF p = "google"
    THEN Tuple(Or(Field(cfg, "GOOGLE_CLIENT_ID"), getGoogleOAuthConfig.clientId),
               Or(Field(cfg, "GOOGLE_CLIENT_SECRET"), getGoogleOAuthConfig.clientSecret),
               Or(Field(cfg, "GOOGLE_REFRESH_TOKEN"), getGoogleOAuthConfig.refreshToken))
    ELSE Tuple(Or(Field(cfg, "LINKEDIN_CLIENT_ID"), getLinkedInOAuthConfig.clientId),
               Or(Field(cfg, "LINKEDIN_CLIENT_SECRET"), getLinkedInOAuthConfig.clientSecret),
               Or(Field(cfg, "LINKEDIN_REFRESH_TOKEN"), getLinkedInOAuthConfig.refreshToken))

\* the fields getEnvBasedCredentials insists on: three for Google, client id
\* and secret for LinkedIn
MergeComplete(cfg, p) ==
    /\ Merged(cfg, p).clientId # Blank
    /\ Merged(cfg, p).clientSecret # Blank
    /\ p = "google" => Merged(cfg, p).refreshToken # Blank

ResolvedFields == {res.clientId, res.clientSecret, res.refreshToken}

\* C21: a resolved Google or LinkedIn tuple is never a mixture: when the merge
\* of override, command line and environment has every required field, the
\* tuple is that merge and holds no value of the files; when the merge lacks
\* a required field, every field of the tuple is a value of the files or is
\* unset, and no value of the merge survives in it.
C21_NoMixedTuple ==
    (res.provider \in {"google", "linkedin"} /\ res.kind = "client") =>
        IF MergeComplete(res.cfg, res.provider)
        THEN /\ ResolvedFields \cap FileValues = {}
             /\ res.clientId = Merged(res.cfg, res.provider).clientId
             /\ res.clientSecret = Merged(res.cfg, res.provider).clientSecret
             /\ res.refreshToken = Merged(res.cfg, res.provider).refreshToken
        ELSE ResolvedFields \subseteq FileValues \cup {Blank}

\* a partial merge (override client id, environment secret) next to complete
\* files: the tuple is the files' tuple
C21_Witness ==
    /\ res.provider = "google" /\ res.kind = "client"
    /\ Merged(res.cfg, "google").clientId = "ovr"
    /\ Merged(res.cfg, "google").clientSecret = "env"
    /\ Merged(res.cfg, "google").refreshToken = Blank
    /\ res.clientId = "file" /\ res.clientSecret = "file" /\ res.refreshToken = "file"


----------------------------------------------------------------------------
(* Properties of validation, refresh and write-back inside the wrappers,   *)
(* checked under SpecWrapper                                               *)

\* google-credentials.json is as the previous process left it
RecordUntouched == issued = 0 /\ written = {}

\* C22: while google-credentials.json still holds the record of an earlier
\* process and its expiry_date lies in the future, a Google invocation whose
\* client was resolved from the files is validated without a refresh
\* exchange.
C22_PersistedExpiryHonoured ==
    \A i \in Calls :
        (/\ calls[i].kind \in GoogleKinds
         /\ calls[i].tuple = Tuple("file", "file", "file")
         /\ RecordUntouched
         /\ googleCreds.state = "ok"
         /\ googleCreds.expiry_date > now)
        => calls[i].valid = "true" /\ calls[i].exchanges = 0


----------------------------------------------------------------------------
(* Overlapping Google invocations, checked under SpecConcurrent *)

\* the token set invocation i holds after its refresh exchange
TokensOf(i) == ClientOf(calls[i]).credentials

\* a token set as the token endpoint hands it out, nothing missing
CompleteRecord(f) ==
    /\ f.state = "ok"
    /\ f.access_token # Blank /\ f.refresh_token # Blank /\ f.expiry_date # 0

\* both invocations refreshed and wrote
BothWrote ==
    \A i \in Calls : calls[i].exchanges = 1 /\ calls[i].wrote
                      /\ calls[i].pc \in {"calling", "done"}

C23_Step ==
    \* every change of the file is the write of one invocation, which leaves
    \* the token set of that invocation's exchange in it, whole
    /\ googleCreds' # googleCreds =>
          \E i \in Calls :
             /\ calls[i].pc = "refreshing" /\ calls'[i].wrote
             /\ calls'[i].refreshed = Tok(issued')
             /\ googleCreds' =
                   GoogleCredsFile("ok", calls'[i].refreshed,
                                   calls'[i].tuple.refreshToken, now + TokenLifetime)
             /\ CompleteRecord(googleCreds')
    \* an invocation that writes always changes the file to its own set
    /\ \A i \in Calls :
          (calls[i].pc = "refreshing" /\ calls'[i].wrote)
          => googleCreds'.access_token = calls'[i].refreshed

\* C23: when Google invocations overlap, each refresh write-back replaces
\* google-credentials.json by the complete token set of the invocation that
\* writes; the file therefore holds the set of the last writer, never parts
\* of two sets and never a partial record.
C23_LastWriterWins == [][C23_Step]_vars

\* two invocations were in their refresh exchange together, each got its own
\* token set and wrote it; the file holds the later one
C23_Witness ==
    /\ BothWrote
    /\ calls[1].refreshed = Tok(2) /\ calls[2].refreshed = Tok(1)
    /\ calls[1].cfg.defined /\ ~calls[2].cfg.defined
    /\ googleCreds = GoogleCredsFile("ok", Tok(2), "ovr", now + TokenLifetime)
    /\ TokensOf(2).access_token = Tok(1)


\* the refresh exchange of invocation i failed, or its write-back did
RefreshFailed(i) ==
    /\ calls[i].kind \in GoogleKinds
    /\ calls[i].exchanges >= 1
    /\ calls[i].pc # "refreshing"
    /\ (calls[i].refreshed = Blank \/ ~calls[i].wrote)

\* C24: a Google invocation sends at most one refresh exchange; once that
\* exchange or the write-back has failed, the invocation is over: it holds an
\* error envelope, has sent no further exchange and has not invoked the
\* operation.
C24_OneExchange ==
    \A i \in Calls :
        /\ calls[i].exchanges <= 1
        /\ RefreshFailed(i) =>
              /\ calls[i].pc = "done"
              /\ calls[i].valid = "false"
              /\ calls[i].envelope.class \in {"auth", "generic"}
              /\ ~calls[i].opInvoked
              /\ calls[i].reqToken = Blank

\* the exchange returned a token and the write-back failed
C24_Witness ==
    \E i \in Calls :
        /\ RefreshFailed(i)
        /\ calls[i].refreshed = Tok(1) /\ issued = 1
        /\ calls[i].writeTried /\ ~calls[i].wrote
        /\ calls[i].pc = "done"


\* C25: the refresh write-back creates the config directory when it is
\* absent: once an invocation has called writeFileSync for
\* google-credentials.json, the directory exists (and a write that was made
\* into a missing directory has therefore not failed for want of it).
C25_WriteCreatesDirectory ==
    \A i \in Calls :
        (calls[i].kind \in GoogleKinds /\ calls[i].writeTried) => configDir


\* the invocation ended on a failure path
EndedInFailure(i) ==
    calls[i].pc = "done" /\ calls[i].envelope.class # "result"

\* C26: an invocation that ended on a failure path (no client, invalid
\* credentials, failed refresh, operation error) has emitted a log record.
C26_FailureIsLogged ==
    \A i \in Calls : EndedInFailure(i) => calls[i].logged


\* a step of a Google invocation that carries an override config
OverrideStep(i) ==
    /\ calls'[i] # calls[i]
    /\ calls'[i].kind \in GoogleKinds
    /\ calls'[i].cfg.defined

C27_Step ==
    (\E i \in Calls : OverrideStep(i)) => googleCreds' = googleCreds

\* C27: no step of a Google invocation that carries an override config
\* changes google-credentials.json.
C27_OverrideLeavesRecord == [][C27_Step]_vars


\* the client of invocation i after the step
ClientAfter(i) ==
    IF calls'[i].usesDefault THEN defaultOAuth2Client' ELSE calls'[i].client

\* validateCredentials of invocation i returns false in this step, after its
\* refresh exchange
ReturnsFalse(i) ==
    calls[i].pc = "refreshing" /\ calls'[i].valid = "false"

C28_Step ==
    \A i \in Calls :
        ReturnsFalse(i) =>
            /\ ClientAfter(i).credentials = ClientOf(calls[i]).credentials
            /\ googleCreds' = googleCreds

\* C28: when validateCredentials returns false, the credentials the client
\* holds in memory and google-credentials.json are what they were before the
\* call, also when the exchange succeeded and the write failed.
C28_FalseLeavesState == [][C28_Step]_vars


----------------------------------------------------------------------------
(* The registered Google tools, checked under SpecServer *)

\* some Google or LinkedIn credential is set on the command line or in the
\* environment
AnyConfigured ==
    \/ \E k \in GoogleEnvKeys \cup LinkedInEnvKeys : env[k] # Blank
    \/ \E k \in GoogleCliKeys \cup LinkedInCliKeys : cliArgs[k] # Blank

\* C29: a Google invocation that carries an override config has invoked its
\* operation only after a refresh exchange of its own and the write of the
\* token that exchange returned; and when any Google or LinkedIn credential
\* is set on the command line or in the environment, every call of a
\* registered Google tool carries an override config and the default client
\* caches stay empty.
C29_OverrideAlwaysRefreshes ==
    /\ \A i \in Calls :
          (calls[i].kind \in GoogleKinds /\ calls[i].cfg.defined /\ calls[i].opInvoked)
          => /\ calls[i].exchanges = 1
             /\ calls[i].wrote
             /\ calls[i].refreshed # Blank
             /\ calls[i].reqToken = calls[i].refreshed
             /\ calls[i].refreshed \in written
    \* its client never carries an expiry_date, so it is never found fresh
    /\ \A i \in Calls :
          (calls[i].kind \in GoogleKinds /\ calls[i].cfg.defined
           /\ calls[i].resolved = "client")
          => /\ calls[i].stale = "absent"
             /\ calls[i].exchanges = 1 <=> calls[i].tuple.refreshToken # Blank
    /\ AnyConfigured =>
          /\ \A i \in Calls : calls[i].kind \in GoogleKinds => calls[i].cfg.defined
          /\ defaultOAuth2Client.null
          /\ ~defaultGmailClient /\ ~defaultCalendarClient

\* LinkedIn alone is set in the environment and Google in the files; a second
\* call refreshes again while the token of the first is still unexpired
C29_Witness ==
    \E i \in Calls :
        /\ env = EnvOf("linkedin")
        /\ calls[i].kind \in GoogleKinds /\ calls[i].cfg.defined
        /\ calls[i].tuple = Tuple("file", "file", "file")
        /\ issued = 2 /\ calls[i].refreshed = Tok(2)
        /\ Tok(1) \in written /\ now < 1 + TokenLifetime
        /\ calls[i].opInvoked
        /\ defaultOAuth2Client.null


----------------------------------------------------------------------------
(* The default client cache under changing configuration, checked under    *)
(* SpecCache                                                               *)

\* the tuple a client was built from
BuildOf(client) ==
    Tuple(client.clientId, client.clientSecret, client.credentials.refresh_token)

\* invocation i begins in this step and asks for the default client
BeginsDefault(i) ==
    /\ Begins(i)
    /\ calls'[i].kind \in GoogleKinds
    /\ ~calls'[i].cfg.defined

C30_Step ==
    \* a filled cache stays filled, with the client it was filled with
    /\ ~defaultOAuth2Client.null =>
          /\ ~defaultOAuth2Client'.null
          /\ SameBuild(defaultOAuth2Client', defaultOAuth2Client)
    \* no edit of the files or the environment touches the cache
    /\ defaultOAuth2Client' # defaultOAuth2Client =>
          \E i \in Calls : calls'[i] # calls[i]
    /\ \A i \in Calls :
          BeginsDefault(i) =>
             IF defaultOAuth2Client.null
             \* an empty cache: resolution is attempted again, from the
             \* configuration as it is now
             THEN /\ defaultOAuth2Client' = createOAuth2Client(NoConfig)
                  /\ calls'[i].resolved =
                        IF createOAuth2Client(NoConfig).null THEN "null" ELSE "client"
             \* a filled cache: the call gets the cached client
             ELSE /\ calls'[i].resolved = "client"
                  /\ calls'[i].tuple = BuildOf(defaultOAuth2Client)

\* C30: the default client cache goes from empty to filled only; a filled
\* cache hands every later call the client it holds, whatever the files and
\* the environment have become, and an empty cache makes each call resolve
\* again.
C30_CacheOnlyFills == [][C30_Step]_vars

\* the cache was filled from the files; GOOGLE_* were then set in the
\* environment and the keys file replaced, and the call now in flight still
\* holds the client built from the old files
C30_Witness ==
    \E i \in Calls :
        /\ calls[i].pc \in {"refreshing", "calling"}
        /\ calls[i].usesDefault
        /\ calls[i].tuple = Tuple("file", "file", "file")
        /\ BuildOf(defaultOAuth2Client) = Tuple("file", "file", "file")
        /\ env = EnvOf("google")
        /\ gcpKeys.state = "malformed"
        /\ createOAuth2Client(NoConfig).clientId = "env"

====
